---------------------------- MODULE Spec2Model ----------------------------
(***************************************************************************)
(* A model of jaxman.kalman_filter.KalmanFilter (src/jaxman/kalman_filter.py).*)
(*                                                                         *)
(* The model instantiates the engine with state_dim = noise_dim = 1 and    *)
(* obs_dim = 2, so that a timestep can be fully observed, partially        *)
(* missing or entirely missing.  Floating point numbers are modelled as    *)
(* exact rationals <<n, d>> in lowest terms with d > 0; NaN is <<0, 0>>.   *)
(* State-space quantities of shape (1,) and (1, 1) are rationals, obs-space*)
(* vectors are pairs <<y1, y2>>, the (2, 1) observation matrix is the pair *)
(* of its rows <<h1, h2>>, and (2, 2) matrices are <<<<a, b>>, <<c, d>>>>. *)
(***************************************************************************)
EXTENDS Integers, Sequences, FiniteSets, Bags, TLC

(***************************************************************************)
(* Bounds of the model.                                                    *)
(***************************************************************************)
\* longest observation sequence passed to filter / smooth
MaxT == 3
\* largest horizon passed to sample
MaxN == 3

(***************************************************************************)
(* Exact arithmetic standing in for jnp float arithmetic.                  *)
(***************************************************************************)
Abs(i) == IF i < 0 THEN -i ELSE i

RECURSIVE Gcd(_, _)
Gcd(a, b) == IF b = 0 THEN a ELSE Gcd(b, a % b)

\* the rational n/d in lowest terms with a positive denominator
Sign(d) == IF d < 0 THEN -1 ELSE 1
Reduce(n, d, g) == <<(Sign(d) * n) \div g, (Sign(d) * d) \div g>>
Rat(n, d) == Reduce(n, d, Gcd(Abs(n), Abs(d)))

NaN == <<0, 0>>
Zero == <<0, 1>>
One == <<1, 1>>
isnan(x) == x[2] = 0

\* sums and products cancel common factors first, to stay in integer range
AddOver(x, y, g) == Rat(x[1] * (y[2] \div g) + y[1] * (x[2] \div g),
                       (x[2] \div g) * y[2])
RAdd(x, y) == IF isnan(x) \/ isnan(y) THEN NaN
              ELSE AddOver(x, y, Gcd(x[2], y[2]))
RNeg(x) == <<-x[1], x[2]>>
RSub(x, y) == RAdd(x, RNeg(y))
MulOver(x, y, g, h) == <<(x[1] \div g) * (y[1] \div h),
                         (x[2] \div h) * (y[2] \div g)>>
RMul(x, y) == IF isnan(x) \/ isnan(y) THEN NaN
              ELSE MulOver(x, y, Gcd(Abs(x[1]), y[2]), Gcd(Abs(y[1]), x[2]))
\* division; x / 0 has no finite value and is reported as NaN
RDiv(x, y) == IF isnan(x) \/ isnan(y) \/ y[1] = 0 THEN NaN
              ELSE RMul(x, Rat(y[2], y[1]))
RLess(x, y) == RSub(x, y)[1] < 0

\* obs-space vectors and matrices
VAdd(u, v) == <<RAdd(u[1], v[1]), RAdd(u[2], v[2])>>
VSub(u, v) == <<RSub(u[1], v[1]), RSub(u[2], v[2])>>
VScale(u, c) == <<RMul(u[1], c), RMul(u[2], c)>>
Dot(u, v) == RAdd(RMul(u[1], v[1]), RMul(u[2], v[2]))
MAdd(A, B) == <<VAdd(A[1], B[1]), VAdd(A[2], B[2])>>
MScale(A, c) == <<VScale(A[1], c), VScale(A[2], c)>>
MVec(A, v) == <<Dot(A[1], v), Dot(A[2], v)>>
VecM(v, A) == <<RAdd(RMul(v[1], A[1][1]), RMul(v[2], A[2][1])),
                RAdd(RMul(v[1], A[1][2]), RMul(v[2], A[2][2]))>>
Outer(u, v) == <<VScale(v, u[1]), VScale(v, u[2])>>
Transpose(A) == <<<<A[1][1], A[2][1]>>, <<A[1][2], A[2][2]>>>>
Diag(v) == <<<<v[1], Zero>>, <<Zero, v[2]>>>>
Det(A) == RSub(RMul(A[1][1], A[2][2]), RMul(A[1][2], A[2][1]))
Inverse(A) ==
    MScale(<<<<A[2][2], RNeg(A[1][2])>>, <<RNeg(A[2][1]), A[1][1]>>>>,
           RDiv(One, Det(A)))
Frob2(A) == RAdd(RAdd(RMul(A[1][1], A[1][1]), RMul(A[1][2], A[1][2])),
                 RAdd(RMul(A[2][1], A[2][1]), RMul(A[2][2], A[2][2])))

\* jnp.linalg.pinv of a (1, 1) matrix: the reciprocal, and 0 for 0
pinv1(a) == IF a[1] = 0 THEN Zero ELSE RDiv(One, a)

\* jnp.linalg.pinv of a (2, 2) matrix: the inverse when it has one, else
\* A^T / ||A||_F^2 for a matrix of rank one, else the zero matrix
pinv(A) ==
    IF Det(A)[1] # 0 THEN Inverse(A)
    ELSE IF Frob2(A)[1] # 0 THEN MScale(Transpose(A), RDiv(One, Frob2(A)))
    ELSE <<<<Zero, Zero>>, <<Zero, Zero>>>>


(***************************************************************************)
(* Parameter roles.  A role set by __init__ is the record [kind, v]:       *)
(*   "value"     a plain array v;                                          *)
(*   "fn_t"      a callable of the timestep alone, here v times a factor;  *)
(*   "fn_t_mean" a callable of (timestep, mean), here StateDependent;      *)
(*   "none"      the Python None of an optional role.                      *)
(***************************************************************************)
VARIABLES
    kf,               \* the KalmanFilter object: the fields __init__ sets
    pc,               \* "idle", "forward", "backward", "sampling", "returned", "raised"
    op,               \* the method called: "filter", "smooth" or "sample"
    err,              \* the exception raised, "" when none
    result,           \* the value the method returned
    observations,     \* argument of filter / smooth, shape (T, 2)
    missing_value,    \* argument of filter / smooth
    carry,            \* carry of the forward scan: (t, mean, cov, ll)
    predicted_means, predicted_covs, \* stacked outputs of the forward scan
    filtered_means, filtered_covs,
    F_forward,        \* F_t resolved by _predict at each forward step
    smoothed_means, smoothed_covs,   \* the buffers of smooth
    rts_carry,        \* carry of the backward scan
    indices,          \* the part of `indices` the backward scan has yet to visit
    final_smeans, final_scovs,       \* stacked outputs of the backward scan
    rts_log,          \* what each visit of rts_loop_body read and resolved
    rng_key, num_timesteps,          \* arguments of sample
    sample_carry,     \* carry of the sampling scan: (t, x_prev)
    xs, ys,           \* stacked outputs of the sampling scan
    key_log           \* the PRNG key behind every draw of sample

vars == <<kf, pc, op, err, result, observations, missing_value, carry,
          predicted_means, predicted_covs, filtered_means, filtered_covs,
          F_forward, smoothed_means, smoothed_covs, rts_carry, indices,
          final_smeans, final_scovs, rts_log,
          rng_key, num_timesteps, sample_carry, xs, ys, key_log>>

Value(v) == [kind |-> "value", v |-> v]
FnT(v) == [kind |-> "fn_t", v |-> v]
FnTMean(v) == [kind |-> "fn_t_mean", v |-> v]
\* None; v only records the shape of the role and is never read
None(shape) == [kind |-> "none", v |-> shape]

callable(p) == p.kind \in {"fn_t", "fn_t_mean"}

\* number of positional parameters the callable of a role declares
Arity(p) == IF p.kind = "fn_t" THEN 1 ELSE 2

\* the factors by which the time-indexed callables of the model vary: the
\* covariances and offsets are multiplied by 4 at odd timesteps, the
\* observation matrix by 2, and the noise transform by 1/2
Tau(t) == IF t % 2 = 0 THEN One ELSE Rat(4, 1)
TauRoot(t) == IF t % 2 = 0 THEN One ELSE Rat(2, 1)
TauInvRoot(t) == IF t % 2 = 0 THEN One ELSE Rat(1, 2)

\* a transition matrix that depends on the timestep and on the mean
StateDependent(v, t, mean) ==
    IF RLess(Rat(1, 2), mean) THEN RMul(v, Rat(1, 2))
    ELSE IF t % 2 = 0 THEN v ELSE RMul(v, Rat(2, 1))

\* Python raises TypeError when a callable is called with a number of
\* positional arguments other than the number it declares
RaisesTypeError(p, nargs) == callable(p) /\ Arity(p) # nargs

_get_transition_matrix_raises(t, x_prev) ==
    RaisesTypeError(kf.transition_matrix, 2)

_get_transition_matrix(t, x_prev) ==
    IF callable(kf.transition_matrix)
    THEN StateDependent(kf.transition_matrix.v, t, x_prev)
    ELSE kf.transition_matrix.v

_get_transition_cov(t) ==
    IF callable(kf.transition_cov)
    THEN RMul(kf.transition_cov.v, Tau(t))
    ELSE kf.transition_cov.v

_get_observation_matrix(t) ==
    IF callable(kf.observation_matrix)
    THEN VScale(kf.observation_matrix.v, TauRoot(t))
    ELSE kf.observation_matrix.v

_get_observation_cov(t) ==
    IF callable(kf.observation_cov)
    THEN MScale(kf.observation_cov.v, Tau(t))
    ELSE kf.observation_cov.v

\* the scalar 0.0 of an absent offset broadcasts over the state vector
_get_transition_offset(t) ==
    IF kf.transition_offset.kind = "none" THEN Zero
    ELSE IF callable(kf.transition_offset)
    THEN RMul(kf.transition_offset.v, Tau(t))
    ELSE kf.transition_offset.v

\* the scalar 0.0 of an absent offset broadcasts over the observation vector
_get_observation_offset(t) ==
    IF kf.observation_offset.kind = "none" THEN <<Zero, Zero>>
    ELSE IF callable(kf.observation_offset)
    THEN VScale(kf.observation_offset.v, Tau(t))
    ELSE kf.observation_offset.v

_get_noise_transform(t) ==
    IF callable(kf.noise_transform)
    THEN RMul(kf.noise_transform.v, TauInvRoot(t))
    ELSE kf.noise_transform.v

(***************************************************************************)
(* Missing-observation masking, predict and update.                        *)
(***************************************************************************)
IsNanMask(obs) == <<isnan(obs[1]), isnan(obs[2])>>

\* a masking that inflates R but leaves the rows of H in place
_inflate_missing_keeps_H(non_valid_mask, obs, H, R, mv) ==
    [obs_masked |-> <<IF non_valid_mask[1] THEN Zero ELSE obs[1],
                      IF non_valid_mask[2] THEN Zero ELSE obs[2]>>,
     H_masked |-> H,
     R_masked |-> MAdd(R, Diag(<<IF non_valid_mask[1] THEN mv ELSE Zero,
                                 IF non_valid_mask[2] THEN mv ELSE Zero>>))]

_inflate_missing(non_valid_mask, obs, H, R, mv) ==
    LET valid_mask_f == <<IF non_valid_mask[1] THEN Zero ELSE One,
                          IF non_valid_mask[2] THEN Zero ELSE One>>
        H_masked == <<RMul(H[1], valid_mask_f[1]), RMul(H[2], valid_mask_f[2])>>
        diag_inflation == <<RMul(RSub(One, valid_mask_f[1]), mv),
                            RMul(RSub(One, valid_mask_f[2]), mv)>>
        R_masked == MAdd(R, Diag(diag_inflation))
        obs_masked == <<IF non_valid_mask[1] THEN Zero ELSE obs[1],
                        IF non_valid_mask[2] THEN Zero ELSE obs[2]>>
    IN  [obs_masked |-> obs_masked, H_masked |-> H_masked, R_masked |-> R_masked]

_predict(mean, cov, t) ==
    LET F_t == _get_transition_matrix(t, mean)
        Q_t == _get_transition_cov(t)
        b_t == _get_transition_offset(t)
        G_t == _get_noise_transform(t)
    IN  [mean_pred |-> RAdd(RMul(F_t, mean), b_t),
         cov_pred |-> RAdd(RMul(RMul(F_t, cov), F_t), RMul(RMul(G_t, Q_t), G_t))]

\* line 149 (and line 176): the innovation covariance of a masked observation
InnovationCov(cov_pred, m) ==
    MAdd(MScale(Outer(m.H_masked, m.H_masked), cov_pred), m.R_masked)

\* lines 150-152: the Kalman gain, through the pseudo-inverse of S
Gain(cov_pred, m) ==
    VecM(VScale(m.H_masked, cov_pred), pinv(InnovationCov(cov_pred, m)))

\* line 153: the residual the update applies to the predicted mean
Residual(mean_pred, m) == VSub(m.obs_masked, VScale(m.H_masked, mean_pred))

\* lines 155-156
Corrected(mean_pred, cov_pred, m, K) ==
    [mean_up |-> RAdd(mean_pred, Dot(K, Residual(mean_pred, m))),
     cov_up |-> RSub(cov_pred, RMul(Dot(K, m.H_masked), cov_pred))]

UpdateMasked(mean_pred, cov_pred, m) ==
    Corrected(mean_pred, cov_pred, m, Gain(cov_pred, m))

_update(mean_pred, cov_pred, obs, t, mv) ==
    UpdateMasked(mean_pred, cov_pred,
                 _inflate_missing(IsNanMask(obs), obs, _get_observation_matrix(t),
                                  _get_observation_cov(t), mv))

(***************************************************************************)
(* Log-densities.  The log-density of x under N(loc, cov) in two dimensions *)
(* is -(k * log(2 pi) + log det(cov) + quad) / 2, which is no rational; it  *)
(* is kept exactly as the term [k, det, quad].  A float holding a sum of    *)
(* log-densities is the bag of its terms; the float 0.0 is the empty bag.   *)
(***************************************************************************)
LLZero == EmptyBag

LLAdd(a, b) == a (+) b

QuadForm(r, A) == Dot(r, MVec(A, r))

\* dist.MultivariateNormal(loc, covariance_matrix).log_prob(x)
log_prob(loc, cov, x) ==
    SetToBag({[k |-> 2, det |-> Det(cov),
               quad |-> QuadForm(VSub(x, loc), Inverse(cov))]})

\* line 175: the predictive observation mean of the forward pass
PredMeanMasked(mean_pred, obs_t, d_t, m) ==
    VAdd(VScale(m.H_masked, mean_pred),
         <<IF isnan(obs_t[1]) THEN Zero ELSE d_t[1],
           IF isnan(obs_t[2]) THEN Zero ELSE d_t[2]>>)

\* lines 175-179
MaskedLogProb(mean_pred, cov_pred, obs_t, d_t, m) ==
    log_prob(PredMeanMasked(mean_pred, obs_t, d_t, m),
             InnovationCov(cov_pred, m), m.obs_masked)

\* lines 168-179: the log-density of the masked observation of step t
StepLogProb(mean_pred, cov_pred, obs_t, t, mv) ==
    MaskedLogProb(mean_pred, cov_pred, obs_t, _get_observation_offset(t),
                  _inflate_missing(IsNanMask(obs_t), obs_t,
                                   _get_observation_matrix(t),
                                   _get_observation_cov(t), mv))

(***************************************************************************)
(* Construction and the inputs of the model.                               *)
(***************************************************************************)
KalmanFilter(initial_mean, initial_cov, transition_matrix, transition_cov, observation_matrix, observation_cov, transition_offset, observation_offset, noise_transform) ==
    [initial_mean |-> initial_mean, initial_cov |-> initial_cov,
     transition_matrix |-> transition_matrix, transition_cov |-> transition_cov,
     observation_matrix |-> observation_matrix, observation_cov |-> observation_cov,
     transition_offset |-> transition_offset,
     observation_offset |-> observation_offset,
     noise_transform |-> IF noise_transform.kind = "none" THEN Value(One)
                         ELSE noise_transform]

\* the models the filter is constructed with
Models ==
    { KalmanFilter(m0, One, F,
                   IF tv THEN FnT(One) ELSE Value(One),
                   IF tv THEN FnT(<<One, Zero>>) ELSE Value(<<One, One>>),
                   IF tv THEN FnT(Diag(<<One, One>>))
                         ELSE Value(Diag(<<One, One>>)),
                   b, d,
                   IF tv THEN FnT(One) ELSE None(Zero)) :
        m0 \in {Zero, One},
        F \in {Value(One), FnT(One), FnTMean(One)},
        b \in {None(Zero), Value(One)},
        d \in {None(<<Zero, Zero>>), Value(<<One, Rat(2, 1)>>), FnT(<<One, One>>)},
        tv \in BOOLEAN }

\* one observation: all missing, partially missing, fully observed
ObsRows == { <<NaN, NaN>>, <<One, NaN>>, <<Zero, Rat(2, 1)>> }

ObsSeqs == UNION { [1..T -> ObsRows] : T \in 0..MaxT }

\* stands for the default 1e12, scaled to fit 32-bit integer arithmetic
MissingValues == { Rat(100, 1) }

\* PRNG keys are the path of splits from a seed: split(k) = (k.0, k.1)
Seeds == { <<0>>, <<1>> }

\* 0-based indexing of a stacked array
At(a, i) == a[i + 1]
Last(a) == a[Len(a)]

(***************************************************************************)
(* _forward_pass                                                           *)
(***************************************************************************)
\* a step that leaves the timestep counter where it was
ScanOut_counter_stuck(c, p, step_log_prob, u) ==
    [carry |-> [t |-> c.t, mean |-> u.mean_up, cov |-> u.cov_up,
                ll |-> LLAdd(c.ll, step_log_prob)],
     out |-> [mean_pred |-> p.mean_pred, cov_pred |-> p.cov_pred,
              mean_up |-> u.mean_up, cov_up |-> u.cov_up]]

\* a step that overwrites the accumulator with the log-density of the step
ScanOut_overwrites_ll(c, p, step_log_prob, u) ==
    [carry |-> [t |-> c.t + 1, mean |-> u.mean_up, cov |-> u.cov_up,
                ll |-> step_log_prob],
     out |-> [mean_pred |-> p.mean_pred, cov_pred |-> p.cov_pred,
              mean_up |-> u.mean_up, cov_up |-> u.cov_up]]

\* line 184: the new carry and the stacked outputs of a step
ScanOut(c, p, step_log_prob, u) ==
    [carry |-> [t |-> c.t + 1, mean |-> u.mean_up, cov |-> u.cov_up,
                ll |-> LLAdd(c.ll, step_log_prob)],
     out |-> [mean_pred |-> p.mean_pred, cov_pred |-> p.cov_pred,
              mean_up |-> u.mean_up, cov_up |-> u.cov_up]]

\* lines 168-182: the likelihood term and the update of a predicted estimate
ScanUpdate(c, obs_t, mv, p) ==
    ScanOut(c, p, StepLogProb(p.mean_pred, p.cov_pred, obs_t, c.t, mv),
            _update(p.mean_pred, p.cov_pred, obs_t, c.t, mv))

\* lines 163-184: one step of the forward scan
scan_fn(c, obs_t, mv) == ScanUpdate(c, obs_t, mv, _predict(c.mean, c.cov, c.t))

\* line 186
init_carry == [t |-> 0, mean |-> kf.initial_mean, cov |-> kf.initial_cov,
               ll |-> LLZero]

\* lax.scan traces scan_fn once when it is called, whatever the length of
\* the sequence, so an exception of the body is raised by the call
ForwardPassStart(obs, mv, method) ==
    /\ pc = "idle"
    /\ op' = method
    /\ observations' = obs
    /\ missing_value' = mv
    /\ IF _get_transition_matrix_raises(0, kf.initial_mean)
       THEN /\ pc' = "raised"
            /\ err' = "TypeError"
            /\ carry' = carry
       ELSE /\ pc' = "forward"
            /\ err' = err
            /\ carry' = init_carry
    /\ UNCHANGED <<kf, result, predicted_means, predicted_covs, filtered_means,
                   filtered_covs, F_forward, smoothed_means, smoothed_covs,
                   rts_carry, indices, final_smeans, final_scovs, rts_log,
                   rng_key, num_timesteps, sample_carry, xs, ys, key_log>>

CallFilter == \E obs \in ObsSeqs, mv \in MissingValues :
                  ForwardPassStart(obs, mv, "filter")

CallSmooth == \E obs \in ObsSeqs, mv \in MissingValues :
                  ForwardPassStart(obs, mv, "smooth")

\* lines 187-193: the scan threads the carry and stacks the outputs
StackForward(r) ==
    /\ carry' = r.carry
    /\ predicted_means' = Append(predicted_means, r.out.mean_pred)
    /\ predicted_covs' = Append(predicted_covs, r.out.cov_pred)
    /\ filtered_means' = Append(filtered_means, r.out.mean_up)
    /\ filtered_covs' = Append(filtered_covs, r.out.cov_up)

\* line 187: the scan consumes the observations in order, one per step
ScanStep ==
    /\ pc = "forward"
    /\ Len(filtered_means) < Len(observations)
    /\ StackForward(scan_fn(carry, observations[Len(filtered_means) + 1],
                            missing_value))
    /\ F_forward' = Append(F_forward, _get_transition_matrix(carry.t, carry.mean))
    /\ UNCHANGED <<kf, pc, op, err, result, observations, missing_value,
                   smoothed_means, smoothed_covs, rts_carry, indices,
                   final_smeans, final_scovs, rts_log,
                   rng_key, num_timesteps, sample_carry, xs, ys, key_log>>

\* lines 197-204
FilterReturn ==
    /\ pc = "forward"
    /\ op = "filter"
    /\ Len(filtered_means) = Len(observations)
    /\ result' = [means |-> filtered_means, covs |-> filtered_covs,
                  total_ll |-> carry.ll,
                  shape |-> <<Len(filtered_means), 1>>]
    /\ pc' = "returned"
    /\ UNCHANGED <<kf, op, err, observations, missing_value, carry,
                   predicted_means, predicted_covs, filtered_means, filtered_covs,
                   F_forward, smoothed_means, smoothed_covs, rts_carry, indices,
                   final_smeans, final_scovs, rts_log,
                   rng_key, num_timesteps, sample_carry, xs, ys, key_log>>

(***************************************************************************)
(* smooth                                                                  *)
(***************************************************************************)
\* jnp.zeros((n, state_dim)) and jnp.zeros((n, state_dim, state_dim))
zeros(n) == [k \in 1..n |-> Zero]

\* jnp.arange(n)[::-1]
ReversedRange(n) == [k \in 1..n |-> n - k]

\* lines 232-233: the smoother gain
SmootherGain(cov_f, cov_p, F_t) == RMul(RMul(cov_f, F_t), pinv1(cov_p))

\* lines 235-236: the smoothed estimate from the one of the next timestep
Smoothed(mean_f, cov_f, mean_p, cov_p, A_t, c) ==
    [mean |-> RAdd(mean_f, RMul(A_t, RSub(c.mean, mean_p))),
     cov |-> RAdd(cov_f, RMul(RMul(A_t, RSub(c.cov, cov_p)), A_t))]

\* lines 238-241: each visit writes into the buffers smooth allocated, not
\* into the buffers the previous visit returned
RtsOut(i, c, F_t, curr) ==
    [carry |-> curr,
     smeans |-> [smoothed_means EXCEPT ![i + 1] = curr.mean],
     scovs |-> [smoothed_covs EXCEPT ![i + 1] = curr.cov],
     read |-> [i |-> i, F_t |-> F_t, next_mean_smooth |-> c.mean,
               next_cov_smooth |-> c.cov]]

\* lines 225-236
RtsVisit(i, c, mean_f, cov_f, mean_p, cov_p, F_t) ==
    RtsOut(i, c, F_t,
           Smoothed(mean_f, cov_f, mean_p, cov_p,
                    SmootherGain(cov_f, cov_p, F_t), c))

\* a visit that resolves the transition matrix of timestep i instead of i + 1
rts_loop_body_same_timestep(i, c) ==
    RtsVisit(i, c, At(filtered_means, i), At(filtered_covs, i),
             At(predicted_means, i + 1), At(predicted_covs, i + 1),
             _get_transition_matrix(i, At(filtered_means, i)))

\* lines 222-241: one visit of the backward recursion, at index i
rts_loop_body(i, c) ==
    RtsVisit(i, c, At(filtered_means, i), At(filtered_covs, i),
             At(predicted_means, i + 1), At(predicted_covs, i + 1),
             _get_transition_matrix(i + 1, At(filtered_means, i)))

\* lines 213-220 and 243-244: after the forward pass of smooth
SmoothStart ==
    /\ pc = "forward"
    /\ op = "smooth"
    /\ Len(filtered_means) = Len(observations)
    /\ LET num_timesteps_ == Len(observations)
       IN  IF num_timesteps_ = 0
           THEN \* filtered_means[-1] of an array with no rows
                /\ pc' = "raised"
                /\ err' = "IndexError"
                /\ UNCHANGED <<smoothed_means, smoothed_covs, rts_carry, indices>>
           ELSE /\ pc' = "backward"
                /\ err' = err
                /\ smoothed_means' =
                       [zeros(num_timesteps_) EXCEPT ![num_timesteps_] =
                                                        Last(filtered_means)]
                /\ smoothed_covs' =
                       [zeros(num_timesteps_) EXCEPT ![num_timesteps_] =
                                                        Last(filtered_covs)]
                /\ rts_carry' = [mean |-> Last(filtered_means),
                                 cov |-> Last(filtered_covs)]
                /\ indices' = ReversedRange(num_timesteps_ - 1)
    /\ UNCHANGED <<kf, op, result, observations, missing_value, carry,
                   predicted_means, predicted_covs, filtered_means, filtered_covs,
                   F_forward, final_smeans, final_scovs, rts_log,
                   rng_key, num_timesteps, sample_carry, xs, ys, key_log>>

StackBackward(r) ==
    /\ rts_carry' = r.carry
    /\ final_smeans' = Append(final_smeans, r.smeans)
    /\ final_scovs' = Append(final_scovs, r.scovs)
    /\ rts_log' = Append(rts_log, r.read)

\* lines 246-250: the scan stacks what each visit returns
RtsStep ==
    /\ pc = "backward"
    /\ indices # <<>>
    /\ StackBackward(rts_loop_body(Head(indices), rts_carry))
    /\ indices' = Tail(indices)
    /\ UNCHANGED <<kf, pc, op, err, result, observations, missing_value, carry,
                   predicted_means, predicted_covs, filtered_means, filtered_covs,
                   F_forward, smoothed_means, smoothed_covs,
                   rng_key, num_timesteps, sample_carry, xs, ys, key_log>>

\* lines 252-255: the stacked scan outputs are returned as the result
SmoothReturn ==
    /\ pc = "backward"
    /\ indices = <<>>
    /\ smoothed_means' = final_smeans
    /\ smoothed_covs' = final_scovs
    /\ result' = [means |-> final_smeans, covs |-> final_scovs,
                  total_ll |-> carry.ll,
                  shape |-> <<Len(final_smeans), Len(observations), 1>>]
    /\ pc' = "returned"
    /\ UNCHANGED <<kf, op, err, observations, missing_value, carry,
                   predicted_means, predicted_covs, filtered_means, filtered_covs,
                   F_forward, rts_carry, indices, final_smeans, final_scovs,
                   rts_log, rng_key, num_timesteps, sample_carry, xs, ys, key_log>>

(***************************************************************************)
(* sample                                                                  *)
(***************************************************************************)
\* jax.random.split: two child keys, each a function of the parent alone
split(key) == <<Append(key, 0), Append(key, 1)>>

RECURSIVE KeyHash(_)
KeyHash(key) == IF key = <<>> THEN 0
                ELSE Len(key) * (Last(key) + 1) + KeyHash(SubSeq(key, 1, Len(key) - 1))

\* the j-th standard normal draw behind a key: a function of the key alone
StdNormal(key, j) == Rat(((KeyHash(key) + j) % 3) - 1, 1)

\* square root, exact on the perfect squares the model's covariances are
ISqrt(n) == CHOOSE r \in 0..n : r * r = n
RSqrt(x) == Rat(ISqrt(x[1]), ISqrt(x[2]))

\* MultivariateNormal(loc, cov).sample(key) = loc + cholesky(cov) z(key)
mvn_sample1(loc, cov, key) == RAdd(loc, RMul(RSqrt(cov), StdNormal(key, 1)))

Cholesky(A) ==
    LET l11 == RSqrt(A[1][1])
        l21 == RDiv(A[2][1], l11)
        l22 == RSqrt(RSub(A[2][2], RMul(l21, l21)))
    IN  <<<<l11, Zero>>, <<l21, l22>>>>

mvn_sample2(loc, cov, key) ==
    VAdd(loc, MVec(Cholesky(cov), <<StdNormal(key, 1), StdNormal(key, 2)>>))

\* lines 262-283: one step of the sampling scan; key is the rng_key of sample
sample_step(c, key) ==
    LET t == c.t
        x_prev == c.x_prev
        F_t == _get_transition_matrix(t, x_prev)
        Q_t == _get_transition_cov(t)
        b_t == _get_transition_offset(t)
        G_t == _get_noise_transform(t)
        H_t == _get_observation_matrix(t)
        R_t == _get_observation_cov(t)
        d_t == _get_observation_offset(t)
        rng_proc == split(key)[1]
        rng_obs == split(key)[2]
        w_t == mvn_sample1(Zero, Q_t, rng_proc)
        x_t == RAdd(RAdd(RMul(F_t, x_prev), b_t), RMul(G_t, w_t))
        v_t == mvn_sample2(<<Zero, Zero>>, R_t, rng_obs)
        y_t == VAdd(VAdd(VScale(H_t, x_t), d_t), v_t)
    IN  [carry |-> [t |-> t + 1, x_prev |-> x_t],
         out |-> [x_t |-> x_t, y_t |-> y_t],
         keys |-> [t |-> t, rng_proc |-> rng_proc, rng_obs |-> rng_obs]]

\* lines 285-291: the initial draw, then the scan is traced and started
CallSample ==
    \E key \in Seeds, n \in 0..MaxN :
        /\ pc = "idle"
        /\ op' = "sample"
        /\ rng_key' = key
        /\ num_timesteps' = n
        /\ key_log' = [init |-> key, steps |-> <<>>]
        /\ sample_carry' =
               [t |-> 0, x_prev |-> mvn_sample1(kf.initial_mean, kf.initial_cov, key)]
        /\ IF _get_transition_matrix_raises(0, kf.initial_mean)
           THEN pc' = "raised" /\ err' = "TypeError"
           ELSE pc' = "sampling" /\ err' = err
        /\ UNCHANGED <<kf, result, observations, missing_value, carry,
                       predicted_means, predicted_covs, filtered_means,
                       filtered_covs, F_forward, smoothed_means, smoothed_covs,
                       rts_carry, indices, final_smeans, final_scovs, rts_log,
                       xs, ys>>

StackSample(r) ==
    /\ sample_carry' = r.carry
    /\ xs' = Append(xs, r.out.x_t)
    /\ ys' = Append(ys, r.out.y_t)
    /\ key_log' = [key_log EXCEPT !.steps = Append(@, r.keys)]

\* line 291
SampleStep ==
    /\ pc = "sampling"
    /\ Len(xs) < num_timesteps
    /\ StackSample(sample_step(sample_carry, rng_key))
    /\ UNCHANGED <<kf, pc, op, err, result, observations, missing_value, carry,
                   predicted_means, predicted_covs, filtered_means, filtered_covs,
                   F_forward, smoothed_means, smoothed_covs, rts_carry, indices,
                   final_smeans, final_scovs, rts_log, rng_key, num_timesteps>>

\* line 293
SampleReturn ==
    /\ pc = "sampling"
    /\ Len(xs) = num_timesteps
    /\ result' = [xs |-> xs, ys |-> ys]
    /\ pc' = "returned"
    /\ UNCHANGED <<kf, op, err, observations, missing_value, carry,
                   predicted_means, predicted_covs, filtered_means, filtered_covs,
                   F_forward, smoothed_means, smoothed_covs, rts_carry, indices,
                   final_smeans, final_scovs, rts_log,
                   rng_key, num_timesteps, sample_carry, xs, ys, key_log>>

(***************************************************************************)
(* The specification: a filter is constructed, then one method is called.  *)
(***************************************************************************)
Init ==
    /\ kf \in Models
    /\ pc = "idle"
    /\ op = ""
    /\ err = ""
    /\ result = <<>>
    /\ observations = <<>>
    /\ missing_value = Zero
    /\ carry = [t |-> 0, mean |-> Zero, cov |-> Zero, ll |-> LLZero]
    /\ predicted_means = <<>>
    /\ predicted_covs = <<>>
    /\ filtered_means = <<>>
    /\ filtered_covs = <<>>
    /\ F_forward = <<>>
    /\ smoothed_means = <<>>
    /\ smoothed_covs = <<>>
    /\ rts_carry = [mean |-> Zero, cov |-> Zero]
    /\ indices = <<>>
    /\ final_smeans = <<>>
    /\ final_scovs = <<>>
    /\ rts_log = <<>>
    /\ rng_key = <<>>
    /\ num_timesteps = 0
    /\ sample_carry = [t |-> 0, x_prev |-> Zero]
    /\ xs = <<>>
    /\ ys = <<>>
    /\ key_log = [init |-> <<>>, steps |-> <<>>]

Next ==
    \/ CallFilter
    \/ CallSmooth
    \/ ScanStep
    \/ FilterReturn
    \/ SmoothStart
    \/ RtsStep
    \/ SmoothReturn
    \/ CallSample
    \/ SampleStep
    \/ SampleReturn

Spec == Init /\ [][Next]_vars

(***************************************************************************)
(* The claims.                                                             *)
(***************************************************************************)
Returned(method) == pc = "returned" /\ op = method

AllMissing(obs) == isnan(obs[1]) /\ isnan(obs[2])
NoneMissing(obs) == ~isnan(obs[1]) /\ ~isnan(obs[2])

\* the masking of the k-th observation (k counts from 1, its timestep is k - 1)
MaskAt(k) ==
    _inflate_missing(IsNanMask(observations[k]), observations[k],
                     _get_observation_matrix(k - 1),
                     _get_observation_cov(k - 1), missing_value)

\* the estimate the k-th forward step starts from
PrevMean(k) == IF k = 1 THEN kf.initial_mean ELSE filtered_means[k - 1]
PrevCov(k) == IF k = 1 THEN kf.initial_cov ELSE filtered_covs[k - 1]

\* C1: smooth returns smoothed means and covariances whose leading length
\* is T = len(observations), entry t being the smoothed estimate of
\* timestep t.
C1_SmoothOutputsAligned ==
    Returned("smooth") =>
        /\ Len(result.means) = Len(observations)
        /\ Len(result.covs) = Len(observations)
        /\ result.shape = <<Len(observations), 1>>

\* C2: the last entry of the means and covariances smooth returns equals
\* the last filtered mean and covariance (compared entry by entry, as the
\* arrays broadcast).
C2_SmoothLastIsFilteredLast ==
    Returned("smooth") =>
        /\ Len(result.means) >= 1
        /\ \A k \in 1..Len(Last(result.means)) :
               /\ Last(result.means)[k] = Last(filtered_means)
               /\ Last(result.covs)[k] = Last(filtered_covs)

\* C3: at a timestep whose observation is missing in every dimension the
\* update is a no-op: H_masked and the gain are zero, and the filtered mean
\* and covariance recorded for it are the predicted ones.
C3_NoInformationStep ==
    \A k \in 1..Len(filtered_means) :
        AllMissing(observations[k]) =>
            /\ MaskAt(k).H_masked = <<Zero, Zero>>
            /\ Gain(predicted_covs[k], MaskAt(k)) = <<Zero, Zero>>
            /\ filtered_means[k] = predicted_means[k]
            /\ filtered_covs[k] = predicted_covs[k]

\* a step without information was filtered after one that carried some
C3_Witness ==
    /\ Len(filtered_means) >= 2
    /\ AllMissing(observations[2])
    /\ filtered_covs[1] # predicted_covs[1]
    /\ filtered_means[1] # predicted_means[1]

\* C4: the forward pass visits t = 0 .. T-1 in order with the counter
\* incremented once per observation; predicted[t] is Predict, with index t,
\* of filtered[t-1] (of the initial estimate when t = 0), filtered[t] is
\* Update of predicted[t] with observations[t]; and filter returns the T
\* filtered estimates, index-aligned with the observations.
C4_ForwardPassAligned ==
    /\ carry.t = Len(filtered_means)
    /\ Len(predicted_means) = Len(filtered_means)
    /\ Len(predicted_covs) = Len(filtered_means)
    /\ Len(filtered_covs) = Len(filtered_means)
    /\ Len(filtered_means) <= Len(observations)
    /\ \A k \in 1..Len(filtered_means) :
           /\ _predict(PrevMean(k), PrevCov(k), k - 1) =
                  [mean_pred |-> predicted_means[k], cov_pred |-> predicted_covs[k]]
           /\ _update(predicted_means[k], predicted_covs[k], observations[k],
                      k - 1, missing_value) =
                  [mean_up |-> filtered_means[k], cov_up |-> filtered_covs[k]]
    /\ Returned("filter") =>
           /\ result.means = filtered_means
           /\ result.covs = filtered_covs
           /\ Len(result.means) = Len(observations)
           /\ Len(result.covs) = Len(observations)
           /\ result.shape = <<Len(observations), 1>>

\* filter returned for a time-varying model after three observations, the
\* second of which changed the estimate
C4_Witness ==
    /\ Returned("filter")
    /\ Len(observations) = 3
    /\ callable(kf.transition_cov)
    /\ filtered_means[2] # predicted_means[2]

\* the sum of the log-densities of the first k masked observations, each
\* under the predictive observation distribution of its step
RECURSIVE SumStepLogProb(_)
SumStepLogProb(k) ==
    IF k = 0 THEN LLZero
    ELSE LLAdd(SumStepLogProb(k - 1),
               StepLogProb(predicted_means[k], predicted_covs[k],
                           observations[k], k - 1, missing_value))

\* C5: the accumulator starts at 0 and after k observations is the sum of
\* the first k per-step log-densities; the total filter returns, and smooth
\* passes through, is the sum over all T steps.
C5_LogLikelihoodAdditive ==
    /\ carry.ll = SumStepLogProb(Len(filtered_means))
    /\ (Returned("filter") \/ Returned("smooth")) =>
           result.total_ll = SumStepLogProb(Len(observations))

\* smooth returned the total of three steps
C5_Witness ==
    /\ Returned("smooth")
    /\ Len(observations) = 3
    /\ BagCardinality(result.total_ll) = 3
    /\ \E term \in BagToSet(result.total_ll) : term.quad # Zero

\* C6: in sample the process-noise keys of two distinct timesteps differ,
\* so do their observation-noise keys, the two keys of one timestep differ,
\* and none of them is the key of the initial-state draw.
C6_IndependentKeys ==
    /\ \A i, j \in 1..Len(key_log.steps) :
           i # j => /\ key_log.steps[i].rng_proc # key_log.steps[j].rng_proc
                    /\ key_log.steps[i].rng_obs # key_log.steps[j].rng_obs
    /\ \A i \in 1..Len(key_log.steps) :
           /\ key_log.steps[i].rng_proc # key_log.steps[i].rng_obs
           /\ key_log.steps[i].rng_proc # key_log.init
           /\ key_log.steps[i].rng_obs # key_log.init

\* C7: with an empty observation sequence filter and smooth fail with an
\* error instead of returning a result.
C7_EmptyObservationsRaise ==
    (op \in {"filter", "smooth"} /\ Len(observations) = 0) => pc # "returned"

\* C8: every role resolves in its declared mode; in particular a transition
\* matrix declared as a function of the timestep alone is invoked with the
\* timestep alone, so resolving it raises nothing.
C8_ResolutionFollowsMode ==
    /\ err # "TypeError"
    /\ kf.transition_matrix.kind = "fn_t" => pc \notin {"raised"}

\* C9: the backward recursion visits t = T-2 down to 0; the visit of t reads
\* the smoothed estimate the preceding visit computed for t+1 (the filtered
\* estimate at T-1 on the first visit), filtered[t] and predicted[t+1]; and
\* the transition matrix it resolves is the one the forward pass resolved
\* when it produced predicted[t+1].
C9_BackwardRecursion ==
    \A k \in 1..Len(rts_log) :
        LET i == rts_log[k].i
            next == [mean |-> rts_log[k].next_mean_smooth,
                     cov |-> rts_log[k].next_cov_smooth]
        IN  /\ i = Len(observations) - 1 - k
            /\ next = IF k = 1
                      THEN [mean |-> Last(filtered_means),
                            cov |-> Last(filtered_covs)]
                      ELSE [mean |-> At(final_smeans[k - 1], i + 1),
                            cov |-> At(final_scovs[k - 1], i + 1)]
            /\ rts_log[k].F_t = At(F_forward, i + 1)
            /\ [mean |-> At(final_smeans[k], i), cov |-> At(final_scovs[k], i)] =
                   Smoothed(At(filtered_means, i), At(filtered_covs, i),
                            At(predicted_means, i + 1), At(predicted_covs, i + 1),
                            SmootherGain(At(filtered_covs, i),
                                         At(predicted_covs, i + 1),
                                         At(F_forward, i + 1)),
                            next)

\* smooth visited two timesteps for a transition matrix that depends on the
\* timestep and the mean and took different values along the forward pass
C9_Witness ==
    /\ Returned("smooth")
    /\ Len(rts_log) = 2
    /\ kf.transition_matrix.kind = "fn_t_mean"
    /\ F_forward[2] # F_forward[3]
    /\ F_forward[1] # F_forward[2]

\* C10: at every timestep with no missing entry, the residual the update
\* applies is the observation minus the predictive observation mean
\* H_t mean_pred + d_t of the forward pass.
C10_ResidualUsesOffset ==
    \A k \in 1..Len(filtered_means) :
        NoneMissing(observations[k]) =>
            Residual(predicted_means[k], MaskAt(k)) =
                VSub(observations[k],
                     PredMeanMasked(predicted_means[k], observations[k],
                                    _get_observation_offset(k - 1), MaskAt(k)))

=============================================================================
